---- MODULE Spec2Model ----
(***************************************************************************)
(* Model of the Topic event system of declarative_streamlit                *)
(* (src/declarative_streamlit/core/logic/topic.py, class BaseTopic).       *)
(*                                                                         *)
(* One topic object is modelled.  Its fields are the variables below; each *)
(* public method is one action, taken atomically because the code is       *)
(* synchronous: register, publish_event and the four allow/deny-list       *)
(* editors.  Coroutines scheduled by handle_event with asyncio.create_task *)
(* run later, when the publisher has returned to the event loop (RunTask). *)
(*                                                                         *)
(* `last` is an observation of the latest call: which handler wrappers     *)
(* handle_event called, which handler bodies raised, which (exception,     *)
(* event data) pairs were handed to _handle_error and to the custom error  *)
(* handler, and how the call ended for the caller.                         *)
(*                                                                         *)
(* The broker (core/logic/broker.py, class BaseBroker) is modelled beside  *)
(* it: its registry of topics, the attributes _register_topic sets on the  *)
(* broker object, and an observation of the latest broker call.            *)
(*                                                                         *)
(* The declarative core is modelled by one Parser (core/build) and one     *)
(* Layer (core/handlers).  A Renderable is no state of its own: parse()    *)
(* makes a new one on every call, and calling it is the pure operator      *)
(* safe_render.  `shown` records what the latest call did: the calls made  *)
(* to the base component, the effects and the error handler, in order,     *)
(* what the call returned and what it raised.                              *)
(***************************************************************************)
EXTENDS Integers, Sequences, FiniteSets, TLC

VARIABLES
    error_strategy,   \* self.error_strategy
    error_handler,    \* self.error_handler: "none", or how the callable behaves
    max_dead_letters, \* maxsize of self._dead_letters
    blacklist,        \* self._blacklist
    whitelist,        \* self._whitelist: [present, members]; present = FALSE is None
    handlers,         \* self._handlers
    senders,          \* sender closures set as attributes by _register_sender
    dead_letters,     \* self._dead_letters.queue
    loop_running,     \* whether the publisher runs inside an asyncio event loop
    tasks,            \* coroutines scheduled by asyncio.create_task, not yet run
    metrics,          \* self._metrics: events_processed and errors
    last,             \* observation of the latest call
    topics,           \* BaseBroker._topics: topic id -> topic
    attributes,       \* names bound on the broker object by setattr
    sent,             \* observation of the latest broker call
    parser,           \* a Parser: component, flags, error handler, effects
    layer,            \* a Layer: elements and explicit order
    shown,            \* observation of the latest call on the parser or layer
    layoutable,       \* a Layoutable: its Schema (layers, body, mapping) and flags
    container,        \* a Container of simplest/core: its layers and flag
    element           \* a Stateful element: editable flag and state

topicVars == <<error_strategy, error_handler, max_dead_letters, blacklist, whitelist,
               handlers, senders, dead_letters, loop_running, tasks, metrics, last>>

brokerVars == <<topics, attributes, sent>>

uiVars == <<parser, layer, shown>>

layoutVars == <<layoutable, container, element>>

vars == <<topicVars, brokerVars, uiVars, layoutVars>>

\* what a call on the topic leaves alone
beyondTopic == <<brokerVars, uiVars, layoutVars>>

\* what a call on the broker leaves alone
beyondBroker == <<topicVars, uiVars, layoutVars>>

\* what a call on a parser or a layer leaves alone
beyondUI == <<topicVars, brokerVars, layoutVars>>

\* what a call on the layoutable or the stateful element leaves alone
beyondLayout == <<topicVars, brokerVars, parser, layer>>

\* what a call on the container or the stateful element leaves alone
beyondContainer == <<topicVars, brokerVars, parser, layer, layoutable>>

config == <<error_strategy, error_handler, max_dead_letters, loop_running>>

(***************************************************************************)
(* Bounds of the model.                                                    *)
(***************************************************************************)
\* most handler executions counted by the metrics
MaxProcessed == 3

\* most handlers registered on the topic
MaxHandlers == 3

\* longest dead-letter queue followed (an unbounded queue grows without end)
MaxDepth == 2

\* most scheduled coroutines waiting for the event loop
MaxTasks == 2

(***************************************************************************)
(* Value sets.                                                             *)
(***************************************************************************)
Strategies == {"RAISE", "WARN", "IGNORE", "CUSTOM"}

ErrorHandlers == {"none", "returns", "raises"}

\* Attributes every BaseTopic has before any handler is registered
\* (two representatives of its methods and fields).
BuiltinAttrs == {"register", "version"}

Senders == {"alice", "bob"}

Range(s) == {s[i] : i \in 1..Len(s)}


\* event["data"] as handed to a handler
DataOf(event) ==
    [whole |-> FALSE, sender |-> "", destination |-> "", data |-> event.data]

\* the whole event, as publish_event hands it to _handle_error
WholeOf(event) ==
    [whole |-> TRUE, sender |-> event.sender,
     destination |-> event.destination, data |-> event.data]

NoEvent == [sender |-> "", destination |-> "", data |-> ""]

EmptyRun(dl, ts) ==
    [dl |-> dl, tasks |-> ts, invoked |-> <<>>, failed |-> {},
     errpath |-> <<>>, custom |-> <<>>, raised |-> "none", processed |-> 0]

(***************************************************************************)
(* Exceptions.  src is the id of the handler the exception comes from      *)
(* (0: none).                                                              *)
(***************************************************************************)
HandlerExc(id) == [kind |-> "HandlerError", src |-> id]

Exc(kind, id) == [kind |-> kind, src |-> id]

PermissionExc == [kind |-> "PermissionError", src |-> 0]

(***************************************************************************)
(* BaseTopic.is_sender_allowed                                             *)
(***************************************************************************)
\* faulty variant: the deny-list is not consulted
is_sender_allowed_no_blacklist(sender_id) ==
    IF whitelist.present THEN sender_id \in whitelist.members ELSE TRUE

is_sender_allowed(sender_id) ==
    IF sender_id \in blacklist THEN FALSE
    ELSE IF whitelist.present THEN sender_id \in whitelist.members
    ELSE TRUE

\* what a call did, and what held when it was made: the senders allowed to
\* publish and whether `name` was on the deny-list or the allow-list
Observe(op, outcome, name, event, before, r) ==
    [op |-> op, outcome |-> outcome, name |-> name, event |-> event,
     dl_before |-> before, invoked |-> r.invoked, failed |-> r.failed,
     errpath |-> r.errpath, custom |-> r.custom,
     allowed_before |-> {s \in Senders \cup {"carol"} : is_sender_allowed(s)},
     listed_before |-> name \in blacklist \cup whitelist.members]

(***************************************************************************)
(* BaseTopic._insert_handler_by_priority: before the first handler of      *)
(* strictly lower priority, else at the end.                               *)
(***************************************************************************)
InsertAt(hs, i, new) == SubSeq(hs, 1, i - 1) \o <<new>> \o SubSeq(hs, i, Len(hs))

FirstOf(S) == CHOOSE i \in S : \A j \in S : i <= j

\* faulty variant: >= for >, a tie goes in front of the earlier handler
insert_handler_by_priority_ge(hs, new) ==
    LET lower == {i \in 1..Len(hs) : new.priority >= hs[i].priority}
    IN  IF lower = {} THEN Append(hs, new) ELSE InsertAt(hs, FirstOf(lower), new)

insert_handler_by_priority(hs, new) ==
    LET lower == {i \in 1..Len(hs) : new.priority > hs[i].priority}
    IN  IF lower = {} THEN Append(hs, new) ELSE InsertAt(hs, FirstOf(lower), new)

(***************************************************************************)
(* BaseTopic._register_sender: hasattr guard, then setattr.                *)
(***************************************************************************)
HasAttr(ss, name) == name \in BuiltinAttrs \/ \E s \in ss : s.name = name

\* faulty variant: setattr without the hasattr guard
register_sender_overwrite(ss, name, owner) ==
    [senders |-> {s \in ss : s.name /= name} \cup {[name |-> name, owner |-> owner]},
     raised |-> "none"]

register_sender(ss, name, owner) ==
    IF HasAttr(ss, name)
    THEN [senders |-> ss, raised |-> "AttributeError"]
    ELSE [senders |-> ss \cup {[name |-> name, owner |-> owner]}, raised |-> "none"]

(***************************************************************************)
(* queue.Queue(maxsize).put_nowait: a maxsize <= 0 is an unbounded queue;  *)
(* queue.Full is swallowed by _handle_error.                               *)
(***************************************************************************)
IsFull(q) == max_dead_letters > 0 /\ Len(q) >= max_dead_letters

put_nowait(q, e) == IF IsFull(q) THEN q ELSE Append(q, e)

(***************************************************************************)
(* BaseTopic._default_error_handler and BaseTopic._handle_error.  r is the *)
(* run so far; r.raised names the exception leaving the call.              *)
(***************************************************************************)
default_error_handler(r, exc) ==
    IF error_strategy = "RAISE"
    THEN [r EXCEPT !.raised = "TopicProcessingError"]
    ELSE r

\* faulty variant: the custom handler is called outside try/except
handle_error_unguarded(r, exc, event_data) ==
    LET e  == [exc |-> exc, event_data |-> event_data]
        r1 == [r EXCEPT !.dl = put_nowait(@, e), !.errpath = Append(@, e)]
    IN  IF error_strategy = "CUSTOM" /\ error_handler /= "none"
        THEN IF error_handler = "raises"
             THEN [r1 EXCEPT !.custom = Append(@, e), !.raised = "CustomHandlerError"]
             ELSE [r1 EXCEPT !.custom = Append(@, e)]
        ELSE default_error_handler(r1, exc)

\* faulty variant: under RAISE the error is raised before it is recorded
handle_error_raise_first(r, exc, event_data) ==
    LET e  == [exc |-> exc, event_data |-> event_data]
        r0 == [r EXCEPT !.errpath = Append(@, e)]
    IN  IF error_strategy = "CUSTOM" /\ error_handler /= "none"
        THEN [r0 EXCEPT !.dl = put_nowait(@, e), !.custom = Append(@, e)]
        ELSE IF error_strategy = "RAISE"
             THEN [r0 EXCEPT !.raised = "TopicProcessingError"]
             ELSE [r0 EXCEPT !.dl = put_nowait(@, e)]

\* faulty variant: IGNORE drops the error without recording it
handle_error_skip_ignore(r, exc, event_data) ==
    LET e  == [exc |-> exc, event_data |-> event_data]
        r1 == [r EXCEPT !.dl = IF error_strategy = "IGNORE" THEN @ ELSE put_nowait(@, e),
                        !.errpath = Append(@, e)]
    IN  IF error_strategy = "CUSTOM" /\ error_handler /= "none"
        THEN [r1 EXCEPT !.custom = Append(@, e)]
        ELSE default_error_handler(r1, exc)

handle_error(r, exc, event_data) ==
    LET e  == [exc |-> exc, event_data |-> event_data]
        r1 == [r EXCEPT !.dl = put_nowait(@, e), !.errpath = Append(@, e)]
    IN  IF error_strategy = "CUSTOM" /\ error_handler /= "none"
        THEN \* an exception of the custom handler is caught and logged
             [r1 EXCEPT !.custom = Append(@, e)]
        ELSE default_error_handler(r1, exc)

(***************************************************************************)
(* BaseTopic._update_metrics(success): one more event processed; the       *)
(* latency average is not modelled, and "errors" is not written.           *)
(***************************************************************************)
update_metrics(r, success) == [r EXCEPT !.processed = @ + 1]

(***************************************************************************)
(* _create_handler_wrapper.sync_wrapper: the handler body runs; fails says *)
(* whether it raises.                                                      *)
(***************************************************************************)
sync_wrapper(r, h, data, fails) ==
    LET r0 == [r EXCEPT !.invoked = Append(@, h.id)]
    IN  IF ~fails THEN update_metrics(r0, TRUE)
        ELSE LET r1 == handle_error(update_metrics([r0 EXCEPT !.failed = @ \cup {h.id}],
                                                   FALSE),
                                    HandlerExc(h.id), data)
             IN  IF r1.raised /= "none" THEN r1
                 ELSE IF error_strategy = "RAISE"
                      THEN [r1 EXCEPT !.raised = "TopicProcessingError"]
                      ELSE r1

(***************************************************************************)
(* handle_event's asyncio.create_task(handler["handler"](event["data"])):  *)
(* the coroutine object is made, and scheduled when a loop is running;     *)
(* with no running loop create_task raises RuntimeError.                   *)
(***************************************************************************)
create_task(r, h, data) ==
    LET r0 == [r EXCEPT !.invoked = Append(@, h.id)]
    IN  IF loop_running
        THEN [r0 EXCEPT !.tasks = Append(@, [id |-> h.id, data |-> data])]
        ELSE [r0 EXCEPT !.raised = "RuntimeError"]

(***************************************************************************)
(* BaseTopic.handle_event, from handler index i on.                        *)
(***************************************************************************)
\* faulty variant: aliases are not consulted
Matches_name_only(h, destination) == destination = h.name \/ h.generic

Matches(h, destination) ==
    destination = h.name \/ destination \in h.aliases \/ h.generic

\* faulty variant: an exception leaving a handler is swallowed and the loop
\* goes on under every strategy
RECURSIVE handle_event_nobreak(_, _, _, _)
handle_event_nobreak(r, i, event, failing) ==
    IF i > Len(handlers) THEN r
    ELSE LET h == handlers[i]
         IN  IF ~Matches(h, event.destination)
             THEN handle_event_nobreak(r, i + 1, event, failing)
             ELSE LET r1 == IF h.is_async
                            THEN create_task(r, h, DataOf(event))
                            ELSE sync_wrapper(r, h, DataOf(event), h.id \in failing)
                  IN  handle_event_nobreak([r1 EXCEPT !.raised = "none"], i + 1, event, failing)

RECURSIVE handle_event_from(_, _, _, _)
handle_event_from(r, i, event, failing) ==
    IF i > Len(handlers) THEN r
    ELSE LET h == handlers[i]
         IN  IF ~Matches(h, event.destination)
             THEN handle_event_from(r, i + 1, event, failing)
             ELSE LET r1 == IF h.is_async
                            THEN create_task(r, h, DataOf(event))
                            ELSE sync_wrapper(r, h, DataOf(event), h.id \in failing)
                  IN  IF r1.raised = "none"
                      THEN handle_event_from(r1, i + 1, event, failing)
                      ELSE LET r2 == handle_error([r1 EXCEPT !.raised = "none"],
                                                  Exc(r1.raised, h.id), DataOf(event))
                           IN  IF r2.raised /= "none" THEN r2
                               ELSE IF error_strategy = "RAISE" THEN r2
                               ELSE handle_event_from(r2, i + 1, event, failing)

handle_event(r, event, failing) == handle_event_from(r, 1, event, failing)

(***************************************************************************)
(* BaseTopic.publish_event                                                 *)
(***************************************************************************)
publish_event(r, event, failing) ==
    IF ~is_sender_allowed(event.sender)
    THEN handle_error(r, PermissionExc, WholeOf(event))
    ELSE handle_event(r, event, failing)

(***************************************************************************)
(* Actions.                                                                *)
(***************************************************************************)

\* BaseTopic.register / _register_handler: the handler is inserted first,
\* then the sender closure is registered (which may raise AttributeError).
Register(name, aliases, priority, generic, is_async) ==
    /\ Len(handlers) < MaxHandlers
    /\ LET id  == Len(handlers) + 1
           new == [id |-> id, name |-> name, aliases |-> aliases,
                   priority |-> priority, generic |-> generic, is_async |-> is_async]
           reg == register_sender(senders, name, id)
       IN  /\ handlers' = insert_handler_by_priority(handlers, new)
           /\ senders' = reg.senders
           /\ last' = Observe("register",
                              IF reg.raised = "none" THEN "returned" ELSE reg.raised,
                              name, NoEvent, Len(dead_letters),
                              EmptyRun(dead_letters, tasks))
    /\ UNCHANGED <<config, blacklist, whitelist, dead_letters, tasks, metrics,
                   beyondTopic>>

\* BaseTopic.publish_event(event); failing: the handlers whose body raises
\* on this event.
PublishEvent(sender, destination, failing) ==
    LET event == [sender |-> sender, destination |-> destination, data |-> "x"]
    IN  \E r \in {publish_event(EmptyRun(dead_letters, tasks), event, failing)} :
            /\ Len(r.dl) <= MaxDepth
            /\ Len(r.tasks) <= MaxTasks
            /\ metrics.events_processed + r.processed <= MaxProcessed
            /\ dead_letters' = r.dl
            /\ tasks' = r.tasks
            /\ metrics' = [metrics EXCEPT !.events_processed = @ + r.processed]
            /\ last' = Observe("publish",
                               IF r.raised = "none" THEN "returned" ELSE r.raised,
                               "", event, Len(dead_letters), r)
            /\ UNCHANGED <<config, blacklist, whitelist, handlers, senders,
                           beyondTopic>>

\* _create_handler_wrapper.async_wrapper: the body of the coroutine.
async_wrapper(r, id, data, fails) ==
    LET r0 == [r EXCEPT !.invoked = Append(@, id)]
    IN  IF ~fails THEN update_metrics(r0, TRUE)
        ELSE LET r1 == handle_error(update_metrics([r0 EXCEPT !.failed = @ \cup {id}],
                                                   FALSE),
                                    HandlerExc(id), data)
             IN  IF r1.raised /= "none" THEN r1
                 ELSE IF error_strategy = "RAISE"
                      THEN [r1 EXCEPT !.raised = "TopicProcessingError"]
                      ELSE r1

\* The event loop runs the oldest scheduled coroutine; an exception leaving
\* it stays in the task object, nobody receives it.
RunTask(fails) ==
    /\ tasks /= <<>>
    /\ \E r \in {async_wrapper(EmptyRun(dead_letters, Tail(tasks)),
                               Head(tasks).id, Head(tasks).data, fails)} :
           /\ Len(r.dl) <= MaxDepth
           /\ metrics.events_processed + r.processed <= MaxProcessed
           /\ dead_letters' = r.dl
           /\ tasks' = r.tasks
           /\ metrics' = [metrics EXCEPT !.events_processed = @ + r.processed]
           /\ last' = Observe("task",
                              IF r.raised = "none" THEN "returned" ELSE r.raised,
                              "", NoEvent, Len(dead_letters), r)
    /\ UNCHANGED <<config, blacklist, whitelist, handlers, senders,
                   beyondTopic>>

Edited(op, sender_id) ==
    last' = Observe(op, "returned", sender_id, NoEvent, Len(dead_letters),
                    EmptyRun(dead_letters, tasks))

add_to_blacklist(sender_id) ==
    /\ blacklist' = blacklist \cup {sender_id}
    /\ Edited("add_to_blacklist", sender_id)
    /\ UNCHANGED <<config, whitelist, handlers, senders, dead_letters, tasks,
                   metrics, beyondTopic>>

remove_from_blacklist(sender_id) ==
    /\ blacklist' = blacklist \ {sender_id}
    /\ Edited("remove_from_blacklist", sender_id)
    /\ UNCHANGED <<config, whitelist, handlers, senders, dead_letters, tasks,
                   metrics, beyondTopic>>

\* a missing allow-list is created
add_to_whitelist(sender_id) ==
    /\ whitelist' = [present |-> TRUE, members |-> whitelist.members \cup {sender_id}]
    /\ Edited("add_to_whitelist", sender_id)
    /\ UNCHANGED <<config, blacklist, handlers, senders, dead_letters, tasks,
                   metrics, beyondTopic>>

\* `if self._whitelist and ...`: the set stays, also when it becomes empty
remove_from_whitelist(sender_id) ==
    /\ whitelist' = [whitelist EXCEPT !.members = @ \ {sender_id}]
    /\ Edited("remove_from_whitelist", sender_id)
    /\ UNCHANGED <<config, blacklist, handlers, senders, dead_letters, tasks,
                   metrics, beyondTopic>>

(***************************************************************************)
(* BaseTopic.__init__: the handler list, the queue and the attributes      *)
(* start empty; `set(whitelist) if whitelist else None`.                   *)
(***************************************************************************)
Constructed(strategies, ehandlers, capacities, blacklists, whitelists, loops) ==
    /\ error_strategy \in strategies
    /\ error_handler \in ehandlers
    /\ max_dead_letters \in capacities
    /\ blacklist \in blacklists
    /\ whitelist \in {[present |-> w /= {}, members |-> w] : w \in whitelists}
    /\ loop_running \in loops
    /\ handlers = <<>>
    /\ senders = {}
    /\ dead_letters = <<>>
    /\ tasks = <<>>
    /\ metrics = [events_processed |-> 0, errors |-> 0]
    /\ last = Observe("init", "returned", "", NoEvent, 0, EmptyRun(<<>>, <<>>))

(***************************************************************************)
(* The broker (core/logic/broker.py).                                      *)
(***************************************************************************)
\* most messages one topic of the broker receives
MaxReceived == 2

\* ids given to topics; "publish" is also the name of a method of the broker
TopicIds == {"orders", "chat", "publish"}

Messages == {"m1", "m2"}

\* no topic under this id
NoTopic == [origin |-> "none", received |-> <<>>]

\* a topic that has handled nothing yet; origin: the call that registered it
NewTopic(origin) == [origin |-> origin, received |-> <<>>]

Sent(op, outcome, topic_id, message, before) ==
    [op |-> op, outcome |-> outcome, topic_id |-> topic_id, message |-> message,
     before |-> before]

\* BaseBroker.__init__
BrokerConstructed ==
    /\ topics = [id \in TopicIds |-> NoTopic]
    /\ attributes = {}
    /\ sent = Sent("init", "returned", "", "", [id \in TopicIds |-> NoTopic])

\* dict.get: None for an id that was never registered
get_topic(topic_id) == topics[topic_id]

\* an attribute of the instance hides the method of the same name
Callable(method) == method \notin attributes

\* BaseBroker._register_topic: the registry entry and setattr(self, id, topic)
register_topic(topic_id, origin) ==
    /\ topics' = [topics EXCEPT ![topic_id] = NewTopic(origin)]
    /\ attributes' = attributes \cup {topic_id}

\* BaseBroker.create_topic(_id): a new BaseTopic, registered
create_topic(topic_id) ==
    /\ register_topic(topic_id, "create_topic")
    /\ sent' = Sent("create_topic", "returned", topic_id, "", topics)
    /\ UNCHANGED beyondBroker

\* BaseBroker.subscribe(topic): a topic constructed elsewhere, registered
subscribe(topic_id) ==
    /\ register_topic(topic_id, "subscribe")
    /\ sent' = Sent("subscribe", "returned", topic_id, "", topics)
    /\ UNCHANGED beyondBroker

\* broker.publish(topic_id, message): the attribute lookup, then
\* BaseBroker.publish, which hands the message to topic.publish_event
publish(topic_id, message) ==
    /\ Len(topics[topic_id].received) < MaxReceived
    /\ IF ~Callable("publish")
       THEN /\ sent' = Sent("publish", "TypeError", topic_id, message, topics)
            /\ UNCHANGED topics
       ELSE IF get_topic(topic_id).origin = "none"
            THEN /\ sent' = Sent("publish", "ValueError", topic_id, message, topics)
                 /\ UNCHANGED topics
            ELSE /\ topics' = [topics EXCEPT ![topic_id].received = Append(@, message)]
                 /\ sent' = Sent("publish", "returned", topic_id, message, topics)
    /\ UNCHANGED <<attributes, beyondBroker>>

\* the topic of the model is left as constructed
TopicIdle == Constructed({"RAISE"}, {"none"}, {1}, {{}}, {{}}, {FALSE})

(***************************************************************************)
(* Renderable (core/base/renderable.py) and the marker it returns for a    *)
(* failure (err/nonrender.py).  There are two implementations: st_simple   *)
(* runs every effect through _safe_effect_execution, simplest calls the    *)
(* effect directly.                                                        *)
(***************************************************************************)
\* most effects added to one parser
MaxEffects == 2

Variants == {"st_simple", "simplest"}

\* what the base component does when called
Components == {"truthy", "falsy", "raises"}

\* what the error handler does: absent, or the truth value it returns
Errhandlers == {"none", "truthy", "falsy"}

\* what an effect does when called
EffectKinds == {"ok", "raises"}

NoExc == Exc("none", 0)

NoResult == [kind |-> "none", value |-> "", message |-> NoExc, fatal |-> FALSE,
             component |-> ""]

ValueResult(v) == [NoResult EXCEPT !.kind = "value", !.value = v]

\* NonRenderError(message, fatal, component)
NonRenderError(message, fatal, component) ==
    [kind |-> "marker", value |-> "", message |-> message, fatal |-> fatal,
     component |-> component]

\* a run in which nothing was called yet
NoCalls == [calls |-> <<>>, result |-> NoResult, raised |-> NoExc]

Called(r, fn, index, arg, exc) ==
    [r EXCEPT !.calls = Append(@, [fn |-> fn, index |-> index, arg |-> arg,
                                   exc |-> exc])]

\* the failure leaves _safe_render instead of being turned into a marker
render_failed_propagates(r, c, e) == [r EXCEPT !.raised = e]

\* a marker is returned whatever the handler answered
render_failed_always_marker(r, c, e) ==
    LET r1 == IF c.errhandler /= "none" THEN Called(r, "errhandler", 0, "", e) ELSE r
    IN  [r1 EXCEPT !.result = NonRenderError(e, c.fatal, c.key)]

\* the except block of _safe_render: the handler, if there is one, decides
\* between suppressing the failure and returning a marker
render_failed(r, c, e) ==
    LET r1 == IF c.errhandler /= "none" THEN Called(r, "errhandler", 0, "", e) ELSE r
    IN  [r1 EXCEPT !.result = IF c.errhandler = "truthy" THEN NoResult
                              ELSE NonRenderError(e, c.fatal, c.key)]

\* st_simple Renderable._safe_effect_execution: `status` is bound only when
\* there is a handler, so without one the except block itself fails
safe_effect_execution(r, c, i, res) ==
    LET r1 == Called(r, "effect", i, res, NoExc)
        e  == Exc("EffectError", i)
    IN  IF c.effects[i] = "ok" THEN r1
        ELSE IF c.errhandler = "none"
             THEN [r1 EXCEPT !.raised = Exc("UnboundLocalError", 0)]
             ELSE LET r2 == Called(r1, "errhandler", 0, "", e)
                  IN  IF c.errhandler = "truthy" THEN r2
                      ELSE [r2 EXCEPT !.raised = e]

\* simplest Renderable._safe_render: eff(res)
effect_execution(r, c, i, res) ==
    LET r1 == Called(r, "effect", i, res, NoExc)
    IN  IF c.effects[i] = "ok" THEN r1
        ELSE [r1 EXCEPT !.raised = Exc("EffectError", i)]

\* `for eff in self._effects`: an exception leaving one effect ends the loop
RECURSIVE apply_effects(_, _, _, _)
apply_effects(r, c, i, res) ==
    IF i > Len(c.effects) THEN r
    ELSE LET r1 == IF c.variant = "st_simple"
                   THEN safe_effect_execution(r, c, i, res)
                   ELSE effect_execution(r, c, i, res)
         IN  IF r1.raised /= NoExc THEN r1
             ELSE apply_effects(r1, c, i + 1, res)

\* VElement.render: st_simple takes the call-time arguments when there are
\* any (`args or self.args`), simplest always takes the stored ones
render_args(c, args) ==
    IF c.variant = "st_simple" /\ args /= "" THEN args ELSE c.args

\* Renderable.__call__ and _safe_render; args = "": called without arguments
safe_render(c, args) ==
    LET a  == render_args(c, IF args = "" THEN c.args ELSE args)
        r0 == Called(NoCalls, "render", 0, a, NoExc)
    IN  CASE c.component = "raises" -> render_failed(r0, c, Exc("ComponentError", 0))
          [] c.component = "falsy"  -> r0
          [] OTHER ->
               LET r1 == apply_effects(r0, c, 1, a)
               IN  IF r1.raised /= NoExc
                   THEN render_failed([r1 EXCEPT !.raised = NoExc], c, r1.raised)
                   ELSE [r1 EXCEPT !.result = ValueResult(a)]

\* NonRenderError.__call__ on the marker a run returned: the class does not
\* derive from BaseException, so `raise self from self.message` raises
\* TypeError; a marker that is not fatal returns (message, component)
marker_call(r) ==
    IF r.result.fatal
    THEN [r EXCEPT !.raised = Exc("TypeError", 0)]
    ELSE [r EXCEPT !.result.kind = "pair"]

\* NonRenderError.__bool__
marker_bool(m) == m.fatal

(***************************************************************************)
(* Parser (core/build/base.py), StreamlitComponentParser.parse             *)
(* (core/build/cstparser.py) and StreamlitLayoutParser.parse               *)
(* (simplest/core/build/lstparser.py).  Values handed to a setter are      *)
(* written as Python writes them: "True", "False", or "invalid" for a      *)
(* value of the wrong type.                                                *)
(***************************************************************************)
IsBool(x) == x \in {"True", "False"}

ToBool(x) == x = "True"

IsCallable(x) == x /= "invalid"

\* parse(): the default values of its parameters
ParseDefaults ==
    [stateful |-> FALSE, fatal |-> TRUE, errhandler |-> "none", strict |-> TRUE,
     column_based |-> FALSE]

\* no Renderable was made by the call
NoRenderable ==
    [variant |-> "", kind |-> "", key |-> "", component |-> "", args |-> "",
     fatal |-> FALSE, strict |-> FALSE, errhandler |-> "none", effects |-> <<>>,
     column_based |-> FALSE]

Shown(op, value, outcome, before, given, made, run) ==
    [op |-> op, value |-> value, outcome |-> outcome, before |-> before,
     given |-> given, made |-> made, run |-> run]

\* Parser.__init__ with the defaults of ParserConfig; the layout parser has
\* the defaults of StreamlitLayoutParser.__init__
NewParser(variant, class, component) ==
    [variant |-> variant, class |-> class, key |-> "k", component |-> component,
     args |-> "stored", stateful |-> FALSE, fatal |-> class = "layout",
     strict |-> class /= "layout", autoconfig |-> TRUE, errhandler |-> "none",
     effects |-> <<>>, column_based |-> FALSE]

\* a setter that stores the value although it is rejected
Configured_unvalidated(op, value, ok, after) ==
    /\ parser' = after
    /\ shown' = Shown(op, value, "self", parser, ParseDefaults, NoRenderable, NoCalls)
    /\ UNCHANGED <<layer, beyondUI>>

\* a setter: ValueError for a rejected value and nothing stored, else the
\* value is stored and the parser itself returned
Configured(op, value, ok, after) ==
    /\ parser' = IF ok THEN after ELSE parser
    /\ shown' = Shown(op, value, IF ok THEN "self" ELSE "ValueError", parser,
                      ParseDefaults, NoRenderable, NoCalls)
    /\ UNCHANGED <<layer, beyondUI>>

set_stateful(x) ==
    Configured("set_stateful", <<x>>, IsBool(x), [parser EXCEPT !.stateful = ToBool(x)])

set_fatal(x) ==
    Configured("set_fatal", <<x>>, IsBool(x), [parser EXCEPT !.fatal = ToBool(x)])

set_strict(x) ==
    Configured("set_strict", <<x>>, IsBool(x), [parser EXCEPT !.strict = ToBool(x)])

set_autoconfig(x) ==
    Configured("set_autoconfig", <<x>>, IsBool(x),
               [parser EXCEPT !.autoconfig = ToBool(x)])

\* StreamlitLayoutParser.set_column_based
set_column_based(x) ==
    /\ parser.class = "layout"
    /\ Configured("set_column_based", <<x>>, IsBool(x),
                  [parser EXCEPT !.column_based = ToBool(x)])

set_errhandler(x) ==
    Configured("set_errhandler", <<x>>, IsCallable(x), [parser EXCEPT !.errhandler = x])

add_effect(x) ==
    /\ Len(parser.effects) < MaxEffects
    /\ Configured("add_effect", <<x>>, IsCallable(x),
                  [parser EXCEPT !.effects = Append(@, x)])

\* add_effects(effects): every item is looked at before the list is extended
add_effects(xs) ==
    /\ Len(parser.effects) + Len(xs) <= MaxEffects
    /\ Configured("add_effects", xs, \A i \in 1..Len(xs) : IsCallable(xs[i]),
                  [parser EXCEPT !.effects = @ \o xs])

\* StreamlitComponentParser.parse(stateful, fatal, errhandler, strict); a
\* VElement has no strict attribute (FALSE here)
parse(p, g) ==
    LET f == IF p.autoconfig
             THEN [g EXCEPT !.stateful = p.stateful, !.fatal = p.fatal,
                            !.errhandler = p.errhandler, !.strict = p.strict]
             ELSE g
    IN  [variant |-> p.variant, kind |-> IF f.stateful THEN "IElement" ELSE "VElement",
         key |-> p.key, component |-> p.component, args |-> p.args,
         fatal |-> f.fatal, strict |-> f.stateful /\ f.strict,
         errhandler |-> f.errhandler, effects |-> p.effects, column_based |-> FALSE]

\* StreamlitLayoutParser.parse(fatal, errhandler, column_based):
\* `x if x else self._x` for each of the three
layout_parse(p, g) ==
    [variant |-> p.variant, kind |-> "Container", key |-> p.key,
     component |-> p.component, args |-> p.args,
     fatal |-> IF g.fatal THEN g.fatal ELSE p.fatal, strict |-> FALSE,
     errhandler |-> IF g.errhandler /= "none" THEN g.errhandler ELSE p.errhandler,
     effects |-> <<>>,
     column_based |-> IF g.column_based THEN g.column_based ELSE p.column_based]

\* parser.parse(...) called by the application
Parse(g) ==
    /\ shown' = Shown("parse", <<>>, "returned", parser, g,
                      IF parser.class = "layout" THEN layout_parse(parser, g)
                      ELSE parse(parser, g), NoCalls)
    /\ UNCHANGED <<parser, layer, beyondUI>>

\* Parser.__call__(*args): self.parse(*args) binds the first positional
\* argument to `stateful`, where only its truth value is read; the
\* Renderable is then called without arguments
call_time(args) ==
    IF args = "" THEN ParseDefaults ELSE [ParseDefaults EXCEPT !.stateful = TRUE]

Call(args) ==
    /\ parser.class = "component"
    /\ LET made == parse(parser, call_time(args))
       IN  shown' = Shown("call", <<args>>, "returned", parser, call_time(args), made,
                          safe_render(made, ""))
    /\ UNCHANGED <<parser, layer, beyondUI>>

\* the caller evaluates the marker the latest call returned
Evaluate ==
    /\ shown.op = "call"
    /\ shown.run.result.kind = "marker"
    /\ \E r \in {marker_call(shown.run)} :
           shown' = [shown EXCEPT !.op = "evaluate", !.run = r,
                                  !.outcome = IF r.raised = NoExc THEN "returned"
                                              ELSE r.raised.kind]
    /\ UNCHANGED <<parser, layer, beyondUI>>

(***************************************************************************)
(* Layer and Schema (core/handlers/layer.py, schema.py).  An element is a  *)
(* parser or a plain callable (class "callable"); an entry of `order` is   *)
(* an integer position or a string key.                                    *)
(***************************************************************************)
\* most elements added to the layer
MaxElements == 2

\* longest explicit order given to the layer
MaxOrder == 2

\* keys of the elements, by position
Keys == <<"a", "b", "c", "d">>

Position(n) == [int |-> TRUE, pos |-> n, key |-> ""]

KeyEntry(k) == [int |-> FALSE, pos |-> 0, key |-> k]

\* Layer.__init__
LayerConstructed == layer = [elements |-> <<>>, order |-> <<>>]

(***************************************************************************)
(* Schema (core/handlers/schema.py) held by a Layoutable                   *)
(* (simplest/simplest/core/base/layoutable.py).  Layers are objects:       *)
(* `layers` holds every Layer made, `body` is the index of the one bound   *)
(* to self._body, `mapping` is self._schema (0: no entry).  An element of  *)
(* a Layer is a sub-layer (its index) or a parsed component (its name).    *)
(***************************************************************************)
\* most sub-layers added to a schema
MaxLayers == 2

LayerIds == {"l1", "l2", "_body"}

\* components added to a layout; rendering "boom" raises
ComponentNames == {"c1", "boom"}

SubLayer(uid) == [layer |-> uid, comp |-> ""]

Parsed(c) == [layer |-> 0, comp |-> c]

\* Schema.__init__ and Layoutable.__init__
Schema ==
    [layers |-> <<[id |-> "__body__", elements |-> <<>>]>>, body |-> 1,
     mapping |-> [i \in LayerIds |-> 0], column_based |-> FALSE]

\* Stateful.__init__
StatefulConstructed == element = [editable |-> FALSE, state |-> "none"]

\* Layoutable.__init__ of simplest/core: the layers are a dict, kept here in
\* insertion order
ContainerConstructed == container = [layers |-> <<>>, column_based |-> FALSE]

LayoutConstructed == layoutable = Schema /\ ContainerConstructed /\ StatefulConstructed

UIConstructed(parsers) ==
    /\ parser \in parsers
    /\ LayerConstructed
    /\ LayoutConstructed
    /\ shown = Shown("init", <<>>, "returned", parser, ParseDefaults, NoRenderable,
                     NoCalls)

\* Layer.add_component(component)
add_component(el) ==
    /\ Len(layer.elements) < MaxElements
    /\ layer' = [layer EXCEPT !.elements =
                    Append(@, [el EXCEPT !.key = Keys[Len(layer.elements) + 1]])]
    /\ shown' = Shown("add_component", <<>>, "returned", parser, ParseDefaults,
                      NoRenderable, NoCalls)
    /\ UNCHANGED <<parser, beyondUI>>

\* Layer.set_order(order); a layer is given its explicit order once
set_order(order) ==
    /\ layer.order = <<>>
    /\ layer' = [layer EXCEPT !.order = order]
    /\ shown' = Shown("set_order", <<>>, "returned", parser, ParseDefaults,
                      NoRenderable, NoCalls)
    /\ UNCHANGED <<parser, beyondUI>>

\* what __call_all iterates over: the elements, or the entries of order
Entries(L) ==
    IF L.order = <<>> THEN [i \in 1..Len(L.elements) |-> Position(i - 1)]
    ELSE L.order

\* one element of the layer rendered: parse() then call, or a direct call
render_element(el) ==
    IF el.class = "callable"
    THEN [Called(NoCalls, "render", 0, "", NoExc) EXCEPT
              !.result = ValueResult(el.args)]
    ELSE safe_render(parse(el, ParseDefaults), "")

\* Layer.__call_all from entry i on: a string entry of order is taken for
\* the element itself and called, which raises TypeError; an integer goes
\* through __getitem__; an exception leaving an element leaves the loop
RECURSIVE call_all(_, _, _)
call_all(L, i, acc) ==
    IF i > Len(Entries(L)) THEN acc
    ELSE LET e == Entries(L)[i]
         IN  IF ~e.int THEN [acc EXCEPT !.raised = Exc("TypeError", i)]
             ELSE IF e.pos >= Len(L.elements)
                  THEN [acc EXCEPT !.raised = Exc("IndexError", i)]
                  ELSE LET el  == L.elements[e.pos + 1]
                           run == render_element(el)
                           now == [acc EXCEPT !.rendered =
                                      Append(@, [key |-> el.key, run |-> run])]
                       IN  IF run.raised /= NoExc
                           THEN [now EXCEPT !.raised = run.raised]
                           ELSE call_all(L, i + 1, now)

\* Layer.__call__() without a key; Schema.__call__() hands over to its body
LayerCall(op) ==
    /\ \E r \in {call_all(layer, 1, [rendered |-> <<>>, raised |-> NoExc])} :
           shown' = [Shown(op, <<>>, IF r.raised = NoExc THEN "returned"
                                     ELSE r.raised.kind,
                           parser, ParseDefaults, NoRenderable, NoCalls)
                     EXCEPT !.run = r]
    /\ UNCHANGED <<parser, layer, beyondUI>>

\* the parser and the layer of the model are left as constructed
UIIdle == UIConstructed({NewParser("st_simple", "component", "truthy")})

(***************************************************************************)
(* Schema and Layoutable calls.  Every call records in `shown` its input   *)
(* and how it ended.                                                       *)
(***************************************************************************)
LayoutShown(op, value, outcome, run) ==
    [op |-> op, value |-> value, outcome |-> outcome, run |-> run]

\* Layer.add_component on the layer object uid
Layer_add_component(S, uid, el) ==
    [S EXCEPT !.layers[uid].elements = Append(@, el)]

\* Schema._set_layer_prop: setattr(self, layer.idlayer, layer); the body is
\* the attribute _body
Schema_set_layer_prop(S, uid) ==
    IF S.layers[uid].id = "_body" THEN [S EXCEPT !.body = uid] ELSE S

\* Schema.add_layer: a new Layer becomes the mapping entry under its id, is
\* appended to the body and is set as an attribute of the schema
Schema_add_layer(S, idlayer) ==
    LET uid == Len(S.layers) + 1
        made == [S EXCEPT !.layers = Append(@, [id |-> idlayer, elements |-> <<>>]),
                          !.mapping[idlayer] = uid]
    IN  Schema_set_layer_prop(Layer_add_component(made, made.body, SubLayer(uid)), uid)

\* Schema.add_component
Schema_add_component(S, comp) == Layer_add_component(S, S.body, Parsed(comp))

\* Schema.set_body_name
Schema_set_body_name(S, name) == [S EXCEPT !.layers[S.body].id = name]

\* `layer_id in schema`: Schema defines __getitem__ and __len__ but neither
\* __contains__ nor __iter__, so the interpreter asks for schema[0],
\* schema[1], ... and answers False only on IndexError.  __getitem__ reads
\* the mapping, a dict keyed by the layer ids: the first index that is not a
\* key raises KeyError, and no entry (a Layer) equals a layer id.
Schema_contains(S, layer_id) == "KeyError"

BodyNames == {"__children__"}

add_layer(idlayer) ==
    /\ Len(layoutable.layers) <= MaxLayers
    /\ layoutable' = Schema_add_layer(layoutable, idlayer)
    /\ shown' = LayoutShown("add_layer", idlayer, "returned", <<>>)
    /\ UNCHANGED <<container, element, beyondLayout>>

add_parsed(comp) ==
    /\ Len(SelectSeq(layoutable.layers[layoutable.body].elements,
                      LAMBDA el : el.layer = 0)) < MaxElements
    /\ layoutable' = Schema_add_component(layoutable, comp)
    /\ shown' = LayoutShown("add_component", comp, "returned", <<>>)
    /\ UNCHANGED <<container, element, beyondLayout>>

set_body_name(name) ==
    /\ layoutable' = Schema_set_body_name(layoutable, name)
    /\ shown' = LayoutShown("set_body_name", name, "returned", <<>>)
    /\ UNCHANGED <<container, element, beyondLayout>>

\* Layoutable.add_to_layer (the component parser is set)
add_to_layer(idlayer, comp) ==
    LET found == Schema_contains(layoutable, idlayer)
    IN  /\ IF found = "True"
              THEN /\ layoutable' = Layer_add_component(layoutable,
                                        layoutable.mapping[idlayer], Parsed(comp))
                   /\ shown' = LayoutShown("add_to_layer", idlayer, "returned",
                                           [before |-> layoutable])
              ELSE /\ layoutable' = layoutable
                   /\ shown' = LayoutShown("add_to_layer", idlayer, "KeyError",
                                           [before |-> layoutable])
        /\ UNCHANGED <<container, element, beyondLayout>>

\* Layoutable.set_column_based with a bool
layout_set_column_based(flag) ==
    /\ layoutable' = [layoutable EXCEPT !.column_based = flag]
    /\ shown' = LayoutShown("set_column_based", "", "returned", <<>>)
    /\ UNCHANGED <<container, element, beyondLayout>>

(***************************************************************************)
(* Rendering a layout.  The base component and the scopes it hands out are *)
(* followed as a trace of events: the call of the base component (`at` is  *)
(* its argument, -1 when it is called without any), entering and leaving a *)
(* scope (`at` is its index, -1 for the base component's own scope) and    *)
(* the rendering of a component.                                           *)
(***************************************************************************)
Event(ev, at, comp) == [ev |-> ev, at |-> at, comp |-> comp]

Raises(comps) == \E i \in DOMAIN comps : comps[i] = "boom"

\* the components called in turn until one raises
RECURSIVE CalledInTurn(_)
CalledInTurn(comps) ==
    IF comps = <<>> THEN <<>>
    ELSE IF Head(comps) = "boom" THEN <<Event("render", 0, "boom")>>
    ELSE <<Event("render", 0, Head(comps))>> \o CalledInTurn(Tail(comps))

\* `with scope: ...`: the scope is left when the block ends or raises
Scope(at, comps) == <<Event("enter", at, "")>> \o CalledInTurn(comps) \o <<Event("exit", at, "")>>

\* a loop with one `with` block per group of components: c[k] when indexed,
\* c itself otherwise; an exception ends the loop
RECURSIVE Scopes(_, _, _)
Scopes(groups, k, indexed) ==
    IF groups = <<>> THEN <<>>
    ELSE LET first == Scope(IF indexed THEN k ELSE -1, Head(groups))
         IN  IF Raises(Head(groups)) THEN first
             ELSE first \o Scopes(Tail(groups), k + 1, indexed)

RECURSIVE Flat(_)
Flat(groups) == IF groups = <<>> THEN <<>> ELSE Head(groups) \o Flat(Tail(groups))

\* what calling element k of the body does: a Layer calls its elements, a
\* parsed component is rendered
BodyCalls(S) ==
    [k \in DOMAIN S.layers[S.body].elements |->
        LET el == S.layers[S.body].elements[k]
        IN  IF el.layer = 0 THEN <<el.comp>>
            ELSE Flat([i \in DOMAIN S.layers[el.layer].elements |->
                          IF S.layers[el.layer].elements[i].layer = 0
                              THEN <<S.layers[el.layer].elements[i].comp>>
                              ELSE <<>>])]

\* Layoutable.__render_column_based, called by lrender without arguments
render_column_based(S) == <<Event("base", -1, "")>> \o Scopes(BodyCalls(S), 0, TRUE)

\* Layoutable.__render_row_based
render_row_based(S) == <<Event("base", -1, "")>> \o Scope(-1, Flat(BodyCalls(S)))

Rendering(trace, groups, n, column) ==
    [trace |-> trace, raised |-> Raises(Flat(groups)), children |-> Flat(groups),
     layers |-> n, column |-> column]

\* Layoutable.lrender of simplest/simplest (the component parser is set)
lrender ==
    LET trace == IF layoutable.column_based THEN render_column_based(layoutable)
                 ELSE render_row_based(layoutable)
        n == Cardinality({k \in DOMAIN layoutable.layers[layoutable.body].elements :
                             layoutable.layers[layoutable.body].elements[k].layer /= 0})
        run == Rendering(trace, BodyCalls(layoutable), n, layoutable.column_based)
    IN  /\ shown' = LayoutShown("lrender", "", IF run.raised THEN "raised" ELSE "returned", run)
        /\ UNCHANGED <<layoutable, container, element, beyondLayout>>

\* Layoutable.add_component of simplest/core
container_add_component(idlayer, comp) ==
    LET at == {i \in DOMAIN container.layers : container.layers[i].id = idlayer}
    IN  /\ IF at = {}
              THEN /\ Len(container.layers) < MaxLayers
                   /\ container' = [container EXCEPT !.layers =
                                       Append(@, [id |-> idlayer, components |-> <<comp>>])]
              ELSE \E i \in at :
                   /\ Len(container.layers[i].components) < MaxElements
                   /\ container' = [container EXCEPT !.layers[i].components = Append(@, comp)]
        /\ shown' = LayoutShown("container.add_component", idlayer, "returned", <<>>)
        /\ UNCHANGED <<layoutable, element, beyondContainer>>

\* Layoutable.set_column_based of simplest/core
container_set_column_based(flag) ==
    /\ container' = [container EXCEPT !.column_based = flag]
    /\ shown' = LayoutShown("container.set_column_based", "", "returned", <<>>)
    /\ UNCHANGED <<layoutable, element, beyondContainer>>

ContainerCalls == [i \in DOMAIN container.layers |-> container.layers[i].components]

\* Layoutable.lrender of simplest/core, called by Container.render without
\* arguments and without an explicit order
container_lrender(C) ==
    IF C.column_based
        THEN <<Event("base", Len(C.layers), "")>> \o Scopes(ContainerCalls, 0, TRUE)
        ELSE <<Event("base", -1, "")>> \o Scopes(ContainerCalls, 0, FALSE)

\* Container.render
container_render ==
    LET run == Rendering(container_lrender(container), ContainerCalls,
                         Len(container.layers), container.column_based)
    IN  /\ shown' = LayoutShown("render", "", IF run.raised THEN "raised" ELSE "returned", run)
        /\ UNCHANGED <<layoutable, container, element, beyondContainer>>

(***************************************************************************)
(* Stateful (simplest/core/base/stateful.py).  The class body defines      *)
(* set_state twice; the second definition is the one the class keeps.      *)
(***************************************************************************)
\* depth of nested calls at which the interpreter raises RecursionError
RecursionLimit == 3

States == {"s1", "s2"}

\* Stateful.set_state, entered at the given depth of the call stack
RECURSIVE Stateful_set_state(_, _, _)
Stateful_set_state(el, state, depth) ==
    IF depth > RecursionLimit THEN [outcome |-> "RecursionError", calls |-> depth - 1, el |-> el]
    ELSE IF ~el.editable THEN [outcome |-> "Exception", calls |-> depth, el |-> el]
    ELSE Stateful_set_state(el, state, depth + 1)

set_editable(editable) ==
    /\ element' = [element EXCEPT !.editable = editable]
    /\ shown' = LayoutShown("set_editable", "", "returned", <<>>)
    /\ UNCHANGED <<layoutable, container, beyondContainer>>

set_state(state) ==
    LET r == Stateful_set_state(element, state, 1)
    IN  /\ element' = r.el
        /\ shown' = LayoutShown("set_state", state, r.outcome,
                                [calls |-> r.calls, editable |-> element.editable])
        /\ UNCHANGED <<layoutable, container, beyondContainer>>

(***************************************************************************)
(* Serialization.  A serialized element is followed by the keys the        *)
(* readers look at: __type__ ("" when the key is absent), __engine__, the  *)
(* component name of __base__, the flags of __parser__ and column_based.   *)
(***************************************************************************)
Serialized(type, engine, component, flags, column_based) ==
    [type |-> type, engine |-> engine, component |-> component, flags |-> flags,
     column_based |-> column_based]

Flags(p) ==
    [stateful |-> p.stateful, fatal |-> p.fatal, strict |-> p.strict,
     autoconfig |-> p.autoconfig]

\* StreamlitComponentParser.serialize: __base__, __parser__ and __engine__
Parser_serialize(p) ==
    Serialized("", "StreamlitComponentParser", p.component, Flags(p), FALSE)

\* StreamlitLayoutParser.serialize: plain keys and "_type"
LayoutParser_serialize(p) == Serialized("", "", p.component, Flags(p), p.column_based)

\* Layer.serialize: the elements that have a serialize method, in order
RECURSIVE Layer_serialize(_)
Layer_serialize(elements) ==
    IF elements = <<>> THEN <<>>
    ELSE LET el == Head(elements)
             rest == Layer_serialize(Tail(elements))
         IN  IF el.class = "component" THEN <<Parser_serialize(el)>> \o rest
             ELSE IF el.class = "layout" THEN <<LayoutParser_serialize(el)>> \o rest
             ELSE rest

\* Schema.serialize: {id of the body: serialized elements}
Schema_serialize(idlayer, elements) == [id |-> idlayer, data |-> Layer_serialize(elements)]

\* BaseStandard.get_similar with a string: inside the class body
\* self.__search_by_name is the attribute _BaseStandard__search_by_name,
\* which no class defines (the method is named _search_by_name)
get_similar(names, value) == "AttributeError"

\* StreamlitComponentParser.__get_unserialized
get_unserialized(componentmap, component) ==
    IF componentmap.kind = "registry" THEN get_similar(componentmap.names, component)
    ELSE IF component \in componentmap.names THEN "found"
    ELSE "ValueError"

\* StreamlitComponentParser.deserialize
Parser_deserialize(data, componentmap, strict) ==
    LET found == get_unserialized(componentmap, data.component)
    IN  IF found /= "found" THEN [outcome |-> found, parser |-> NoRenderable]
        ELSE [outcome |-> "returned",
              parser |-> [NewParser("st_simple", "component", data.component) EXCEPT
                             !.fatal = data.flags.fatal, !.strict = data.flags.strict,
                             !.stateful = data.flags.stateful,
                             !.autoconfig = data.flags.autoconfig]]

\* the deserialize of the layout parser class
LayoutParser_deserialize(data, componentmap) ==
    [NewParser("st_simple", "layout", data.component) EXCEPT
        !.fatal = data.flags.fatal, !.strict = data.flags.strict,
        !.column_based = data.column_based]

\* Layer.deserialize: the loop over the serialized elements, from the
\* elements already added
RECURSIVE Layer_deserialize(_, _, _, _)
Layer_deserialize(data, componentmap, strict, added) ==
    IF data = <<>> THEN [outcome |-> "returned", elements |-> added]
    ELSE LET el == Head(data)
             r == Parser_deserialize(el, componentmap, strict)
         IN  IF el.type = "StreamlitComponentParser"
                 THEN IF r.outcome /= "returned"
                          THEN [outcome |-> r.outcome, elements |-> added]
                          ELSE Layer_deserialize(Tail(data), componentmap, strict,
                                                 Append(added, r.parser))
             ELSE IF el.type = "StreamlitLayoutParser"
                 THEN Layer_deserialize(Tail(data), componentmap, strict,
                          Append(added, LayoutParser_deserialize(el, componentmap)))
             ELSE IF strict THEN [outcome |-> "ValueError", elements |-> added]
             ELSE Layer_deserialize(Tail(data), componentmap, strict, added)

\* Schema.deserialize: the first key is the id of the body
Schema_deserialize(doc, componentmap, strict) ==
    LET r == Layer_deserialize(doc.data, componentmap, strict, <<>>)
    IN  [outcome |-> r.outcome, id |-> doc.id, elements |-> r.elements]

SerialShown(op, doc, componentmap, strict, r) ==
    [op |-> op, outcome |-> r.outcome, doc |-> doc, componentmap |-> componentmap,
     strict |-> strict, schema |-> [id |-> r.id, elements |-> r.elements]]

\* Schema.deserialize(schema.serialize(), ...) for the schema whose body is
\* the layer
roundtrip(componentmap, strict) ==
    LET doc == Schema_serialize("__body__", layer.elements)
    IN  /\ shown' = SerialShown("roundtrip", doc, componentmap, strict,
                                Schema_deserialize(doc, componentmap, strict))
        /\ UNCHANGED <<parser, layer, beyondUI>>

\* Schema.deserialize of a document written by hand
deserialize(doc, componentmap, strict) ==
    /\ shown' = SerialShown("deserialize", doc, componentmap, strict,
                            Schema_deserialize(doc, componentmap, strict))
    /\ UNCHANGED <<parser, layer, beyondUI>>

(***************************************************************************)
(* Specifications.  Each draws the constructor arguments and the inputs of *)
(* the calls from the sets its claims are about.                           *)
(***************************************************************************)

\* Registration: names (two of them attributes of every topic) and priorities.
RegNames == {"a", "b"} \cup BuiltinAttrs

Priorities == {-1, 0, 1}

InitReg == Constructed({"RAISE"}, {"none"}, {1}, {{}}, {{}}, {FALSE}) /\ BrokerConstructed /\ UIIdle

NextReg ==
    \E name \in RegNames, priority \in Priorities :
        Register(name, {}, priority, FALSE, FALSE)

SpecReg == InitReg /\ [][NextReg]_vars

\* Handler failures: every error strategy, custom error handlers that return
\* or raise, bounded and unbounded dead-letter queues.
\* most handlers registered where handler failures are followed
MaxDispatched == 2

Capacities == {0, 1, 2}

Configs ==
    {c \in Strategies \X ErrorHandlers : c[1] = "CUSTOM" \/ c[2] = "none"}

Init ==
    /\ Constructed(Strategies, ErrorHandlers, Capacities, {{}}, {{}}, {FALSE})
    /\ <<error_strategy, error_handler>> \in Configs
    /\ BrokerConstructed
    /\ UIIdle

RegisterSync ==
    /\ Len(handlers) < MaxDispatched
    /\ \E name \in {"a", "b"}, generic \in BOOLEAN :
           Register(name, {}, 0, generic, FALSE)

Matching(destination) ==
    {handlers[i].id : i \in {j \in 1..Len(handlers) : Matches(handlers[j], destination)}}

Publish ==
    \E destination \in {"a", "z"} :
        \E failing \in SUBSET Matching(destination) :
            PublishEvent("alice", destination, failing)

Next == RegisterSync \/ Publish

Spec == Init /\ [][Next]_vars

\* Matching: handlers addressed by name, by alias or as generic; no handler
\* fails.
InitMatch == Constructed({"RAISE", "WARN"}, {"none"}, {1}, {{}}, {{}}, {FALSE}) /\ BrokerConstructed /\ UIIdle

RegisterAddressable ==
    \E name \in {"a", "b"}, aliases \in {{}, {"a"}}, priority \in {0, 1},
       generic \in BOOLEAN :
        Register(name, aliases, priority, generic, FALSE)

PublishQuiet ==
    \E destination \in {"a", "b", "z"} : PublishEvent("alice", destination, {})

NextMatch == RegisterAddressable \/ PublishQuiet

SpecMatch == InitMatch /\ [][NextMatch]_vars

\* Security: deny-list and allow-list given to the constructor and edited
\* afterwards; "carol" is a sender no list ever names.
InitSec ==
    /\ Constructed(Strategies, {"none"}, {1}, SUBSET Senders, SUBSET Senders, {FALSE})
    /\ BrokerConstructed
    /\ UIIdle

RegisterGeneric ==
    /\ Len(handlers) < MaxDispatched
    /\ \E name \in {"a", "b"} : Register(name, {}, 0, TRUE, FALSE)

PublishFrom ==
    \E sender \in Senders \cup {"carol"} : PublishEvent(sender, "a", {})

NextSec ==
    \/ RegisterGeneric
    \/ PublishFrom
    \/ \E s \in Senders : add_to_blacklist(s)
    \/ \E s \in Senders : remove_from_blacklist(s)
    \/ \E s \in Senders : add_to_whitelist(s)
    \/ \E s \in Senders : remove_from_whitelist(s)

SpecSec == InitSec /\ [][NextSec]_vars

\* Async handlers: the publisher runs inside an event loop or not; scheduled
\* coroutines run after the publish has returned.
InitAsync == Constructed({"RAISE", "WARN"}, {"none"}, {1}, {{}}, {{}}, BOOLEAN) /\ BrokerConstructed /\ UIIdle

RegisterAny ==
    /\ Len(handlers) < MaxDispatched
    /\ \E name \in {"a", "b"}, is_async \in BOOLEAN :
           Register(name, {}, 0, TRUE, is_async)

PublishAny ==
    \E failing \in SUBSET Matching("a") : PublishEvent("alice", "a", failing)

RunAny == \E fails \in BOOLEAN : RunTask(fails)

NextAsync == RegisterAny \/ PublishAny \/ RunAny

SpecAsync == InitAsync /\ [][NextAsync]_vars

\* The broker alone: topics are created or subscribed, messages published.
InitBroker == TopicIdle /\ BrokerConstructed /\ UIIdle

NextBroker ==
    \/ \E topic_id \in TopicIds : create_topic(topic_id)
    \/ \E topic_id \in TopicIds : subscribe(topic_id)
    \/ \E topic_id \in TopicIds, message \in Messages : publish(topic_id, message)

SpecBroker == InitBroker /\ [][NextBroker]_vars

\* A component parser is configured with valid values and called; the
\* caller evaluates the marker a failed call returns.
InitRender ==
    /\ TopicIdle
    /\ BrokerConstructed
    /\ UIConstructed({NewParser(v, "component", c) : v \in Variants, c \in Components})

NextRender ==
    \/ \E x \in {"True", "False"} : set_fatal(x)
    \/ \E x \in Errhandlers \ {"none"} : set_errhandler(x)
    \/ \E x \in EffectKinds : add_effect(x)
    \/ Call("")
    \/ Evaluate

SpecRender == InitRender /\ [][NextRender]_vars

\* A component parser or a layout parser is configured with valid and
\* invalid values, parsed with call-time values, and called.
Given ==
    [stateful : BOOLEAN, fatal : BOOLEAN, errhandler : {"none", "falsy"},
     strict : BOOLEAN, column_based : BOOLEAN]

InitParser ==
    /\ TopicIdle
    /\ BrokerConstructed
    /\ UIConstructed({NewParser("st_simple", k, "truthy") : k \in {"component", "layout"}})

NextParser ==
    \/ \E x \in {"True", "False", "invalid"} :
           \/ set_stateful(x)
           \/ set_fatal(x)
           \/ set_strict(x)
           \/ set_autoconfig(x)
           \/ set_column_based(x)
    \/ \E x \in {"truthy", "invalid"} : set_errhandler(x)
    \/ \E x \in {"ok", "invalid"} : add_effect(x) \/ add_effects(<<x>>)
    \/ \E x, y \in {"ok", "invalid"} : add_effects(<<x, y>>)
    \/ \E g \in Given : Parse(g)
    \/ \E args \in {"", "call"} : Call(args)

SpecParser == InitParser /\ [][NextParser]_vars

\* Elements are added to a layer, an order is set, the layer is called.
Callables ==
    {[NewParser("st_simple", "callable", "truthy") EXCEPT !.args = "raw"]}

Failing ==
    {[NewParser("st_simple", "component", "raises") EXCEPT !.fatal = f] : f \in BOOLEAN}
    \cup {[NewParser("st_simple", "component", "truthy") EXCEPT !.effects = <<"raises">>]}

Elements == Callables \cup Failing \cup {NewParser("st_simple", "component", "truthy")}

EntriesFor(n) ==
    {Position(i - 1) : i \in 1..n} \cup {KeyEntry(Keys[i]) : i \in 1..n}

Orders(n) ==
    UNION {[1..m -> EntriesFor(n)] : m \in 0..MaxOrder}

InitLayer ==
    /\ TopicIdle
    /\ BrokerConstructed
    /\ UIIdle

NextLayer ==
    \/ \E el \in Elements : add_component(el)
    \/ \E order \in Orders(Len(layer.elements)) : set_order(order)
    \/ LayerCall("layer")
    \/ LayerCall("schema")

SpecLayer == InitLayer /\ [][NextLayer]_vars

(***************************************************************************)
(* Claims.                                                                 *)
(***************************************************************************)
IsPrefix(s, t) == Len(s) <= Len(t) /\ SubSeq(t, 1, Len(s)) = s

\* C1: after any sequence of register calls the handler list is
\* non-increasing in priority, and handlers of equal priority stand in the
\* order they were registered (ids are registration numbers).
C1_PriorityOrder ==
    \A i, j \in 1..Len(handlers) :
        i < j =>
            \/ handlers[i].priority > handlers[j].priority
            \/ /\ handlers[i].priority = handlers[j].priority
               /\ handlers[i].id < handlers[j].id

\* three handlers: two of equal priority, and a later registration that
\* was placed in front of an earlier one
C1_Witness ==
    /\ Len(handlers) = 3
    /\ \E i, j \in 1..3 : i < j /\ handlers[i].priority = handlers[j].priority
    /\ \E i, j \in 1..3 : i < j /\ handlers[i].id > handlers[j].id

\* C9: a register call whose handler name is not yet an attribute of the
\* topic makes the sender closure of that handler reachable under the name;
\* a register call whose name is already an attribute (an earlier handler's
\* closure, a method, a field) ends with AttributeError and leaves every
\* existing attribute as it was.
C9_SenderCollisionGuard ==
    [][ Len(handlers') > Len(handlers) =>
            LET name == last'.name
                id   == Len(handlers')
            IN  IF HasAttr(senders, name)
                THEN last'.outcome = "AttributeError" /\ senders' = senders
                ELSE /\ last'.outcome = "returned"
                     /\ senders' = senders \cup {[name |-> name, owner |-> id]}
      ]_vars

\* a second registration under the name of a registered handler was refused
C9_Witness ==
    /\ last.op = "register"
    /\ last.outcome = "AttributeError"
    /\ \E s \in senders : s.name = last.name /\ s.owner < Len(handlers)

\* The matching rule as the specification words it, and the handlers a
\* destination addresses, in list order.
Addressed(h, destination) ==
    h.name = destination \/ destination \in h.aliases \/ h.generic

AddressedIds(destination) ==
    LET sel == SelectSeq(handlers, LAMBDA h : Addressed(h, destination))
    IN  [i \in 1..Len(sel) |-> sel[i].id]

\* the dead letters the latest call added
NewDeadLetters == SubSeq(dead_letters, last.dl_before + 1, Len(dead_letters))

\* the (exception, event data) pair of handler id failing on the latest event
FailureEntry(id) == [exc |-> HandlerExc(id), event_data |-> DataOf(last.event)]

\* C4, as claimed: the dead-letter queue of a topic constructed with
\* max_dead_letters = N never holds more than N entries, and once it holds N
\* a further error leaves it as it is.
C4_Original ==
    [][ /\ Len(dead_letters') <= max_dead_letters
        /\ Len(dead_letters) >= max_dead_letters => dead_letters' = dead_letters
      ]_vars

\* C5: when a matching synchronous handler raises, then under RAISE the
\* handlers invoked are the matching handlers up to the one that raised and
\* no later one; under WARN, IGNORE and CUSTOM every matching handler is
\* invoked.
C5_FailFastOnlyUnderRaise ==
    (last.op = "publish" /\ last.failed /= {}) =>
        LET m == AddressedIds(last.event.destination)
        IN  IF error_strategy = "RAISE"
            THEN /\ IsPrefix(last.invoked, m)
                 /\ last.failed = {last.invoked[Len(last.invoked)]}
            ELSE last.invoked = m

\* under RAISE a matching handler after the failed one was not invoked
C5_Witness ==
    /\ last.op = "publish"
    /\ error_strategy = "RAISE"
    /\ last.failed /= {}
    /\ Len(last.invoked) < Len(AddressedIds(last.event.destination))

\* C6, as claimed: under RAISE a publish whose handler raises ends with
\* TopicProcessingError for the publisher and the failure is in the
\* dead-letter queue; under WARN and IGNORE it returns normally.
C6_Original ==
    (last.op = "publish" /\ last.failed /= {}) =>
        /\ error_strategy = "RAISE" =>
               /\ last.outcome = "TopicProcessingError"
               /\ \E id \in last.failed : FailureEntry(id) \in Range(NewDeadLetters)
        /\ error_strategy \in {"WARN", "IGNORE"} => last.outcome = "returned"

\* C6, amended: the failure is in the dead-letter queue when the queue had
\* room for it (it was unbounded or not yet full when the handler raised).
C6_RaiseAfterRecording ==
    (last.op = "publish" /\ last.failed /= {}) =>
        /\ error_strategy = "RAISE" =>
               /\ last.outcome = "TopicProcessingError"
               /\ (max_dead_letters <= 0 \/ last.dl_before < max_dead_letters) =>
                      /\ NewDeadLetters /= <<>>
                      /\ \E id \in last.failed : Head(NewDeadLetters) = FailureEntry(id)
        /\ error_strategy \in {"WARN", "IGNORE"} => last.outcome = "returned"

\* RAISE, a bounded queue with room: raised to the publisher, and recorded
C6_Witness ==
    /\ last.op = "publish"
    /\ error_strategy = "RAISE"
    /\ last.failed /= {}
    /\ max_dead_letters > 0
    /\ last.outcome = "TopicProcessingError"
    /\ NewDeadLetters /= <<>>

\* C7: under each strategy, every exception raised in a synchronous handler
\* is handed to _handle_error with the event data, and is in the dead-letter
\* queue when the queue was not full at that moment (the i-th error of a
\* call finds the queue full when the entries before the call and the i - 1
\* errors before it already fill it).
C7_FailuresRecorded ==
    last.op = "publish" =>
        \A id \in last.failed :
            \E i \in 1..Len(last.errpath) :
                /\ last.errpath[i] = FailureEntry(id)
                /\ (max_dead_letters <= 0 \/ last.dl_before + i <= max_dead_letters) =>
                       /\ last.dl_before + i <= Len(dead_letters)
                       /\ dead_letters[last.dl_before + i] = FailureEntry(id)

\* two handlers failed on one event under IGNORE and both were recorded
C7_Witness ==
    /\ last.op = "publish"
    /\ error_strategy = "IGNORE"
    /\ Cardinality(last.failed) = 2
    /\ \A id \in last.failed : FailureEntry(id) \in Range(NewDeadLetters)

\* C8: under CUSTOM with an error handler configured, the handler is called
\* once per failed handler with (exception, event data); whether it returns
\* or raises, the publisher sees a normal return, no further error handling
\* takes place, and every matching handler is invoked.
C8_CustomHandlerGuarded ==
    (last.op = "publish" /\ error_strategy = "CUSTOM" /\ error_handler /= "none") =>
        /\ last.outcome = "returned"
        /\ last.invoked = AddressedIds(last.event.destination)
        /\ Len(last.custom) = Cardinality(last.failed)
        /\ \A id \in last.failed :
               \E i \in 1..Len(last.custom) : last.custom[i] = FailureEntry(id)
        /\ last.errpath = last.custom

\* the custom handler raised while handling the failure of the first of two
\* matching handlers, and the second was still invoked
C8_Witness ==
    /\ last.op = "publish"
    /\ error_strategy = "CUSTOM"
    /\ error_handler = "raises"
    /\ Len(last.invoked) = 2
    /\ last.invoked[1] \in last.failed

\* C2: when a publish is accepted and no handler fails, the handlers invoked
\* are exactly those whose name is the destination, whose aliases contain
\* it, or that are generic, each once.
C2_ExactlyAddressed ==
    (last.op = "publish" /\ last.errpath = <<>>) =>
        /\ Range(last.invoked) =
               {handlers[i].id : i \in {j \in 1..Len(handlers) :
                                     Addressed(handlers[j], last.event.destination)}}
        /\ Cardinality(Range(last.invoked)) = Len(last.invoked)

\* destination "a": one handler named "a", one with alias "a", one generic
\* were invoked
C2_Witness ==
    /\ last.op = "publish"
    /\ last.event.destination = "a"
    /\ Len(last.invoked) = 3
    /\ \E i, j, k \in 1..Len(handlers) :
           /\ handlers[i].name = "a" /\ ~handlers[i].generic
           /\ handlers[j].name = "b" /\ handlers[j].aliases = {"a"} /\ ~handlers[j].generic
           /\ handlers[k].name = "b" /\ handlers[k].aliases = {} /\ handlers[k].generic

\* C3: a publish invokes handlers only if its sender is not in the deny-list
\* and no allow-list is set or the sender is in it; a publish from any other
\* sender invokes no handler and hands one PermissionError with the event
\* to _handle_error.
C3_SenderPolicy ==
    last.op = "publish" =>
        LET s       == last.event.sender
            allowed == /\ s \notin blacklist
                       /\ ~whitelist.present \/ s \in whitelist.members
        IN  /\ last.invoked /= <<>> => allowed
            /\ ~allowed =>
                   /\ last.invoked = <<>>
                   /\ last.errpath =
                          <<[exc |-> PermissionExc, event_data |-> WholeOf(last.event)]>>

\* a sender on both lists published to a topic with a generic handler and
\* was refused
C3_Witness ==
    /\ last.op = "publish"
    /\ handlers /= <<>>
    /\ last.event.sender \in blacklist
    /\ whitelist.present /\ last.event.sender \in whitelist.members
    /\ last.invoked = <<>>
    /\ last.errpath /= <<>>

\* C10, as claimed: a publish addressed to an async handler returns to the
\* publisher (nothing is raised to it, the handler's body runs later) and
\* every addressed handler is dispatched, under RAISE as well.
C10_Original ==
    (/\ last.op = "publish"
     /\ last.failed = {}
     /\ \E i \in 1..Len(handlers) :
            handlers[i].is_async /\ Addressed(handlers[i], last.event.destination)) =>
        /\ last.outcome = "returned"
        /\ last.invoked = AddressedIds(last.event.destination)

(***************************************************************************)
(* C11.  broker.publish(topic_id, message) hands the message to the topic  *)
(* registered under topic_id by create_topic or subscribe and to no other  *)
(* topic; for an id that was never registered it raises and no topic       *)
(* receives anything.                                                      *)
(***************************************************************************)
C11_Original ==
    sent.op = "publish" =>
        IF sent.before[sent.topic_id].origin /= "none"
        THEN /\ sent.outcome = "returned"
             /\ topics = [sent.before EXCEPT
                             ![sent.topic_id].received = Append(@, sent.message)]
        ELSE /\ sent.outcome /= "returned"
             /\ topics = sent.before

(***************************************************************************)
(* C12.  A Renderable without error handler whose base component raises    *)
(* returns a marker; the marker is truthy exactly when the Renderable is   *)
(* fatal; evaluating it raises again (the exception of the base component, *)
(* or the marker carrying it) when fatal, and returns the pair             *)
(* (exception, component) when not.                                        *)
(***************************************************************************)
BaseFailed ==
    /\ shown.made.errhandler = "none"
    /\ shown.made.component = "raises"

C12_Original ==
    /\ (shown.op = "call" /\ BaseFailed) =>
           /\ shown.run.result.kind = "marker"
           /\ marker_bool(shown.run.result) = shown.made.fatal
    /\ (shown.op = "evaluate" /\ BaseFailed) =>
           IF shown.made.fatal
           THEN shown.run.raised.kind \in {"ComponentError", "NonRenderError"}
           ELSE /\ shown.run.raised = NoExc
                /\ shown.run.result.kind = "pair"
                /\ shown.run.result.message = Exc("ComponentError", 0)
                /\ shown.run.result.component = shown.made.key

(***************************************************************************)
(* C13.  When an element of a layer is a parser with fatal = True and no   *)
(* error handler and its base component raises, the call of the layer (or  *)
(* of the schema holding it) raises and no element after it is rendered.   *)
(***************************************************************************)
FatalFailure(run) ==
    /\ run.result.kind = "marker"
    /\ run.result.fatal
    /\ run.result.message = Exc("ComponentError", 0)

C13_Original ==
    shown.op \in {"layer", "schema"} =>
        \A k \in 1..Len(shown.run.rendered) :
            FatalFailure(shown.run.rendered[k].run) =>
                /\ shown.outcome /= "returned"
                /\ k = Len(shown.run.rendered)

(***************************************************************************)
(* C14.  A non-fatal failure is isolated to its own Renderable: when the   *)
(* base component or an effect of the i-th element a Layer renders raises  *)
(* and that element is not fatal, the call of the Layer does not raise and *)
(* every element due after it is rendered, in its turn; rendered in        *)
(* insertion order, every element after i is rendered exactly once.  The   *)
(* entries the Layer goes through are positions of its elements: a string  *)
(* entry of an explicit order ends the call whatever the elements do       *)
(* (see C20).                                                              *)
(***************************************************************************)
FailsNonFatal(el) ==
    /\ el.class = "component"
    /\ ~el.fatal
    /\ \/ el.component = "raises"
       \/ el.component = "truthy" /\ \E j \in 1..Len(el.effects) : el.effects[j] = "raises"

TimesRendered(key) ==
    Cardinality({k \in 1..Len(shown.run.rendered) : shown.run.rendered[k].key = key})

ByPosition(L) ==
    \A i \in 1..Len(Entries(L)) :
        Entries(L)[i].int /\ Entries(L)[i].pos < Len(L.elements)

Due(L, i) == L.elements[Entries(L)[i].pos + 1]

C14_NonFatalIsolated ==
    (shown.op \in {"layer", "schema"} /\ ByPosition(layer)) =>
        \A i \in 1..Len(Entries(layer)) :
            FailsNonFatal(Due(layer, i)) =>
                /\ shown.outcome = "returned"
                /\ Len(shown.run.rendered) = Len(Entries(layer))
                /\ \A j \in (i + 1)..Len(Entries(layer)) :
                       /\ shown.run.rendered[j].key = Due(layer, j).key
                       /\ layer.order = <<>> => TimesRendered(Due(layer, j).key) = 1

\* the first element fails in an effect, the second in its base component,
\* neither is fatal, and both were rendered
C14_Witness ==
    /\ shown.op = "layer"
    /\ layer.order = <<>>
    /\ Len(layer.elements) = 2
    /\ FailsNonFatal(layer.elements[1]) /\ layer.elements[1].component = "truthy"
    /\ FailsNonFatal(layer.elements[2]) /\ layer.elements[2].component = "raises"
    /\ Len(shown.run.rendered) = 2
    /\ shown.run.rendered[1].run.result.kind = "marker"

(***************************************************************************)
(* C15.  A called Renderable applies its effects only when render returned *)
(* a truthy result without raising: then every effect is called exactly    *)
(* once with that result, in the order the effects were added, and the     *)
(* result is returned; otherwise no effect is called.                      *)
(***************************************************************************)
CallsOf(fn) == SelectSeq(shown.run.calls, LAMBDA c : c.fn = fn)

C15_Original ==
    shown.op = "call" =>
        IF shown.made.component = "truthy"
        THEN /\ Len(CallsOf("effect")) = Len(shown.made.effects)
             /\ \A i \in 1..Len(CallsOf("effect")) :
                    /\ CallsOf("effect")[i].index = i
                    /\ CallsOf("effect")[i].arg = shown.made.args
             /\ shown.run.result = ValueResult(shown.made.args)
        ELSE CallsOf("effect") = <<>>

(***************************************************************************)
(* C16.  When render raises and an error handler is set, the handler is    *)
(* called exactly once, with the exception; when it returns a truthy value *)
(* nothing is returned and nothing raised, otherwise a marker carrying the *)
(* exception, the fatal flag and the Renderable is returned.               *)
(***************************************************************************)
C16_HandlerDecides ==
    (shown.op = "call" /\ shown.made.component = "raises"
                       /\ shown.made.errhandler /= "none") =>
        /\ Len(CallsOf("errhandler")) = 1
        /\ CallsOf("errhandler")[1].exc = Exc("ComponentError", 0)
        /\ shown.run.raised = NoExc
        /\ shown.run.result =
               IF shown.made.errhandler = "truthy" THEN NoResult
               ELSE NonRenderError(Exc("ComponentError", 0), shown.made.fatal,
                                   shown.made.key)

\* a handler that answered True for a failed render of a fatal Renderable
C16_Witness ==
    /\ shown.op = "call"
    /\ shown.made.component = "raises"
    /\ shown.made.errhandler = "truthy"
    /\ shown.made.fatal
    /\ Len(CallsOf("errhandler")) = 1
    /\ shown.run.result = NoResult

(***************************************************************************)
(* C17.  Parser configuration fails fast and atomically: a setter of a     *)
(* flag given a non-boolean, set_errhandler or add_effect given a          *)
(* non-callable, and add_effects given a list with a non-callable in it,   *)
(* raise ValueError and leave the stored flags, error handler and effects  *)
(* as they were; given a valid value each returns the parser itself.       *)
(***************************************************************************)
FlagSetters ==
    {"set_stateful", "set_fatal", "set_strict", "set_autoconfig", "set_column_based"}

CallableSetters == {"set_errhandler", "add_effect", "add_effects"}

Accepted(op, value) ==
    IF op \in FlagSetters THEN IsBool(value[1])
    ELSE \A i \in 1..Len(value) : IsCallable(value[i])

Carries(made, f) ==
    /\ made.kind = IF f.stateful THEN "IElement" ELSE "VElement"
    /\ made.fatal = f.fatal
    /\ made.errhandler = f.errhandler
    /\ f.stateful => made.strict = f.strict

ContainerCarries(made, f) ==
    /\ made.kind = "Container"
    /\ made.fatal = f.fatal
    /\ made.errhandler = f.errhandler
    /\ made.column_based = f.column_based

C18_Original ==
    shown.op = "parse" =>
        IF shown.before.class = "component"
        THEN Carries(shown.made, IF shown.before.autoconfig THEN shown.before
                                 ELSE shown.given)
        ELSE \/ ContainerCarries(shown.made, shown.before)
             \/ ContainerCarries(shown.made, shown.given)

(***************************************************************************)
(* C19.  Parser.__call__: called with arguments, the base component        *)
(* is invoked with those arguments, and the flags and error handler of the *)
(* rendered instance are the ones stored on the parser, whether autoconfig *)
(* is on or off; called without arguments, the base component is invoked   *)
(* with the parser's stored arguments.                                     *)
(***************************************************************************)
C19_Original ==
    shown.op = "call" =>
        /\ Len(CallsOf("render")) = 1
        /\ CallsOf("render")[1].arg =
               IF shown.value[1] = "" THEN shown.before.args ELSE shown.value[1]
        /\ Carries(shown.made, shown.before)

(***************************************************************************)
(* C20.  A Layer called without a key renders, when order is not empty,    *)
(* exactly the elements its entries identify (an integer position or a     *)
(* string key), in that sequence, and otherwise every element once, in     *)
(* insertion order.                                                        *)
(***************************************************************************)
Identifies(L, e) ==
    IF e.int THEN e.pos < Len(L.elements)
    ELSE \E k \in 1..Len(L.elements) : L.elements[k].key = e.key

Identified(L, e) ==
    IF e.int THEN L.elements[e.pos + 1]
    ELSE L.elements[CHOOSE k \in 1..Len(L.elements) : L.elements[k].key = e.key]

C20_Original ==
    (/\ shown.op \in {"layer", "schema"}
     /\ \A i \in 1..Len(Entries(layer)) : Identifies(layer, Entries(layer)[i])) =>
        /\ shown.outcome = "returned"
        /\ Len(shown.run.rendered) = Len(Entries(layer))
        /\ \A i \in 1..Len(Entries(layer)) :
               shown.run.rendered[i].key = Identified(layer, Entries(layer)[i]).key

(***************************************************************************)
(* C26.  One failing synchronous handler invocation adds exactly one entry *)
(* to the dead-letter queue when there is room, under every error          *)
(* strategy, RAISE included: the same failure is never recorded twice.     *)
(***************************************************************************)
C26_Original ==
    (last.op = "publish" /\ ~IsFull(dead_letters)) =>
        Len(dead_letters) = last.dl_before + Cardinality(last.failed)

(***************************************************************************)
(* C27.  A register call that fails with the attribute-collision           *)
(* AttributeError leaves the topic unchanged: the handler list is the same *)
(* as before the failed call.                                              *)
(***************************************************************************)
C27_Original ==
    [][(last'.op = "register" /\ last'.outcome = "AttributeError")
           => handlers' = handlers]_vars

(***************************************************************************)
(* C29.  Allow-list edits are reversible: add_to_whitelist(s) for a sender *)
(* s on neither list, followed by remove_from_whitelist(s), leaves         *)
(* is_sender_allowed as it was before the two calls, for every sender; the *)
(* same for add_to_blacklist(s) followed by remove_from_blacklist(s).      *)
(***************************************************************************)
Undoes(add, remove) ==
    /\ last.op = add
    /\ ~last.listed_before
    /\ last'.op = remove
    /\ last'.name = last.name

C29_Original ==
    [][(\/ Undoes("add_to_whitelist", "remove_from_whitelist")
        \/ Undoes("add_to_blacklist", "remove_from_blacklist"))
           => \A s \in Senders \cup {"carol"} :
                  is_sender_allowed(s)' <=> s \in last.allowed_before]_vars

(***************************************************************************)
(* C28.  The metrics track handler executions: every publish adds the      *)
(* number of handler invocations, successful or failed, to                 *)
(* events_processed, and the number of invocations that raised to errors.  *)
(***************************************************************************)
C28_Original ==
    [][last'.op = "publish" =>
           /\ metrics'.events_processed = metrics.events_processed + Len(last'.invoked)
           /\ metrics'.errors = metrics.errors + Cardinality(last'.failed)]_vars

(***************************************************************************)
(* Schema and Layoutable                                                   *)
(***************************************************************************)
InitLayout ==
    /\ TopicIdle
    /\ BrokerConstructed
    /\ UIIdle

NextLayout ==
    \/ \E idlayer \in LayerIds : add_layer(idlayer)
    \/ \E comp \in ComponentNames : add_parsed(comp)
    \/ \E name \in BodyNames : set_body_name(name)
    \/ \E idlayer \in LayerIds, comp \in ComponentNames : add_to_layer(idlayer, comp)
    \/ \E flag \in BOOLEAN : layout_set_column_based(flag)
    \/ lrender

SpecLayout == InitLayout /\ [][NextLayout]_vars

\* the layers made by add_layer: every layer but the one the schema was
\* constructed with
Added == 2 .. Len(layoutable.layers)

ChildOfBody(uid) ==
    \E i \in DOMAIN layoutable.layers[layoutable.body].elements :
        layoutable.layers[layoutable.body].elements[i] = SubLayer(uid)

\* C21: after any sequence of add_layer, add_component and set_body_name
\* calls, every layer added by add_layer is the mapping entry under its id
\* and a child of the body, and no two added layers share an id.
C21_Original ==
    \A uid \in Added :
        /\ layoutable.mapping[layoutable.layers[uid].id] = uid
        /\ ChildOfBody(uid)
        /\ \A other \in Added :
               layoutable.layers[other].id = layoutable.layers[uid].id => other = uid

\* C25: add_to_layer with an id that add_layer was given before returns,
\* having appended the one parsed component to that sub-layer; with an id
\* never added it raises KeyError and leaves the schema unchanged.
C25_Original ==
    shown.op = "add_to_layer" =>
        IF shown.run.before.mapping[shown.value] /= 0
            THEN /\ shown.outcome = "returned"
                 /\ \E comp \in ComponentNames :
                        layoutable = Layer_add_component(shown.run.before,
                                         shown.run.before.mapping[shown.value], Parsed(comp))
            ELSE /\ shown.outcome = "KeyError"
                 /\ layoutable = shown.run.before

(***************************************************************************)
(* Container and Stateful of simplest/core                                 *)
(***************************************************************************)
ContainerLayerIds == {"l1", "l2"}

NextContainer ==
    \/ \E idlayer \in ContainerLayerIds, comp \in ComponentNames :
           container_add_component(idlayer, comp)
    \/ \E flag \in BOOLEAN : container_set_column_based(flag)
    \/ container_render
    \/ \E editable \in BOOLEAN : set_editable(editable)
    \/ \E state \in States : set_state(state)

SpecContainer == InitLayout /\ [][NextContainer]_vars

Bases(trace) == SelectSeq(trace, LAMBDA e : e.ev = "base")

Enters(trace) == SelectSeq(trace, LAMBDA e : e.ev = "enter")

Renders(trace) == SelectSeq(trace, LAMBDA e : e.ev = "render")

\* every scope entered is left before another is entered
OneScopeAtATime(trace) ==
    \A i \in DOMAIN trace :
        trace[i].ev = "enter" =>
            \E j \in (i + 1) .. Len(trace) :
                /\ trace[j].ev = "exit" /\ trace[j].at = trace[i].at
                /\ \A m \in (i + 1) .. (j - 1) : trace[m].ev = "render"

\* C24: rendering a container without arguments calls the base component
\* once and leaves every scope before the next is entered; when no child
\* raises, a column-based container with n child layers passes n to the base
\* component and enters the scopes 0..n-1 in order, and a row-based one
\* enters one scope in which all children are rendered in document order.
C24_Original ==
    shown.op \in {"render", "lrender"} =>
        LET trace == shown.run.trace
            n == shown.run.layers
        IN  /\ Len(Bases(trace)) = 1
            /\ OneScopeAtATime(trace)
            /\ ~shown.run.raised =>
                   IF shown.run.column
                       THEN /\ Bases(trace)[1].at = n
                            /\ [i \in DOMAIN Enters(trace) |-> Enters(trace)[i].at]
                                   = [i \in 1 .. n |-> i - 1]
                       ELSE /\ Len(Enters(trace)) = 1
                            /\ [i \in DOMAIN Renders(trace) |-> Renders(trace)[i].comp]
                                   = shown.run.children

\* C30: set_state raises when the element is not editable and, when it is
\* editable, sets the state and returns after one call.
C30_Original ==
    shown.op = "set_state" =>
        IF shown.run.editable
            THEN /\ shown.outcome = "returned"
                 /\ shown.run.calls = 1
                 /\ element.state = shown.value
            ELSE shown.outcome = "Exception"

(***************************************************************************)
(* Serialization                                                           *)
(***************************************************************************)
Registered == {"button", "columns"}

ComponentMaps == {[kind |-> k, names |-> Registered] : k \in {"mapping", "registry"}}

\* the parsers a serialized schema holds
SerialElements ==
    {[NewParser("st_simple", "component", "button") EXCEPT !.stateful = st, !.fatal = f] :
        st \in BOOLEAN, f \in BOOLEAN}
    \cup {[NewParser("st_simple", "layout", "columns") EXCEPT !.column_based = c] :
             c \in BOOLEAN}

\* serialized elements written by hand: a type that is known, unknown or
\* absent, a component that is registered or not
HandWritten ==
    {Serialized(t, "", c, Flags(NewParser("st_simple", "component", c)), FALSE) :
        t \in {"StreamlitComponentParser", "Canvas", ""}, c \in {"button", "ghost"}}

Documents ==
    {[id |-> "__body__", data |-> d] : d \in UNION {[1..n -> HandWritten] : n \in 0..MaxElements}}

NextSerial ==
    \/ \E el \in SerialElements : add_component(el)
    \/ \E m \in ComponentMaps, strict \in BOOLEAN : roundtrip(m, strict)
    \/ \E doc \in Documents, m \in ComponentMaps, strict \in BOOLEAN : deserialize(doc, m, strict)

SpecSerial == InitLayout /\ [][NextSerial]_vars

\* what the round trip is to keep of an element
Kept(elements) ==
    [i \in DOMAIN elements |->
        [class |-> elements[i].class, component |-> elements[i].component,
         stateful |-> elements[i].stateful, fatal |-> elements[i].fatal,
         strict |-> elements[i].strict, column_based |-> elements[i].column_based]]

\* C22: deserializing the serialized schema returns a schema with the same
\* body id and, element by element, the same parser class, component name
\* and stateful / fatal / strict / column_based flags.
C22_Original ==
    shown.op = "roundtrip" =>
        /\ shown.outcome = "returned"
        /\ shown.schema.id = "__body__"
        /\ Kept(shown.schema.elements) = Kept(layer.elements)

TypeKnown(el) == el.type \in {"StreamlitComponentParser", "StreamlitLayoutParser"}

Unresolved(el) ==
    el.type = "StreamlitComponentParser" /\ el.component \notin shown.componentmap.names

\* C23: with strict=True deserialize raises when an element has an unknown
\* or missing type or a component name the map does not resolve; with
\* strict=False it does not raise, skips the elements of unknown or missing
\* type and yields a parser for every other element.
C23_Original ==
    shown.op = "deserialize" =>
        LET data == shown.doc.data
        IN  IF shown.strict
                THEN (\E i \in DOMAIN data : ~TypeKnown(data[i]) \/ Unresolved(data[i]))
                         => shown.outcome /= "returned"
                ELSE /\ shown.outcome = "returned"
                     /\ Len(shown.schema.elements)
                            = Len(SelectSeq(data, TypeKnown))

====
